---- MODULE Spec2Model ----
(***************************************************************************)
(* Model of ObjectResolver (src/lib/object-resolver.js): find / update on  *)
(* a nested JavaScript value addressed by a delimiter-separated query.     *)
(*                                                                         *)
(* Strings are sequences of one-character strings, so that split() and     *)
(* isNaN() are computed character by character.  JavaScript objects and    *)
(* arrays live in a heap (a sequence of records, the address being the     *)
(* index); the bound context this.ctx is the object at address 1.          *)
(* Property names are built from the characters of Segs only, so no query  *)
(* spells an inherited property ("length", "constructor", ...).            *)
(***************************************************************************)
EXTENDS Integers, Sequences, FiniteSets, TLC

VARIABLES heap, pending, log, delivered

vars == <<heap, pending, log, delivered>>

(* ------------------------------ bounds --------------------------------- *)
MaxSegs == 2
MaxCalls == 1

(* ------------------------- JavaScript values ---------------------------- *)
Undefined == [t |-> "undefined", v |-> 0]
Null == [t |-> "null", v |-> 0]
False == [t |-> "boolean", v |-> 0]
Num(n) == [t |-> "number", v |-> n]
Str(s) == [t |-> "string", v |-> s]
Ref(a) == [t |-> "ref", v |-> a]
This == [t |-> "this", v |-> 0]

\* typeof x
TypeOf(x) ==
  CASE x.t = "ref" -> "object"
    [] x.t = "null" -> "object"
    [] x.t = "error" -> "object"
    [] OTHER -> x.t

\* ToBoolean(x) for the values that occur as query, key or callback result
Truthy(x) ==
  CASE x.t = "undefined" -> FALSE
    [] x.t = "null" -> FALSE
    [] x.t = "boolean" -> FALSE
    [] x.t = "string" -> x.v # <<>>
    [] x.t = "number" -> x.v # 0
    [] OTHER -> TRUE

\* null != x
NotNullish(x) == x.t \notin {"null", "undefined"}

Delim == "."

GETTER_ERROR == "Cannot read property"
SETTER_ERROR == "Cannot set property"

\* new TypeError(MSG.replace('%s', key) + (null === obj && 'null' || typeof obj))
TypeError(msg, key, obj) ==
  [t |-> "error",
   v |-> [msg |-> msg, key |-> key,
          of |-> IF obj.t = "null" THEN "null" ELSE TypeOf(obj)]]

IsError(x) == x.t = "error"

\* String(err)
ErrString(e) == [t |-> "errstring", v |-> e.v]

(* ------------------------------ strings -------------------------------- *)
Digits == {"0", "1", "2", "3", "4", "5", "6", "7", "8", "9"}

AllDigits(s) == \A i \in 1..Len(s) : s[i] \in Digits

\* String.prototype.split with a one-character separator
RECURSIVE SplitFrom(_, _, _, _, _)
SplitFrom(s, d, i, acc, cur) ==
  IF i > Len(s) THEN Append(acc, cur)
  ELSE IF s[i] = d THEN SplitFrom(s, d, i + 1, Append(acc, cur), <<>>)
  ELSE SplitFrom(s, d, i + 1, acc, Append(cur, s[i]))

Split(s, d) == SplitFrom(s, d, 1, <<>>, <<>>)

\* StrDecimalLiteral without sign: digits, digits '.', digits '.' digits, '.' digits
IsUnsignedDecimal(s) ==
  \/ Len(s) > 0 /\ AllDigits(s)
  \/ \E k \in 1..Len(s) :
        /\ s[k] = "."
        /\ AllDigits(SubSeq(s, 1, k - 1))
        /\ AllDigits(SubSeq(s, k + 1, Len(s)))
        /\ Len(s) > 1

\* isNaN(x) for x undefined or a string: ToNumber("") is 0, a signed decimal
\* literal is a number, anything else over the modelled characters is NaN.
IsNaN(x) ==
  IF x.t = "undefined" THEN TRUE
  ELSE LET s == x.v IN
       ~ \/ s = <<>>
         \/ IsUnsignedDecimal(s)
         \/ Len(s) > 1 /\ s[1] \in {"-", "+"} /\ IsUnsignedDecimal(Tail(s))

\* a canonical array index: "0", or digits without a leading zero
IsArrayIndex(s) == Len(s) > 0 /\ AllDigits(s) /\ (Len(s) > 1 => s[1] # "0")

DigitVal(c) ==
  CASE c = "0" -> 0 [] c = "1" -> 1 [] c = "2" -> 2 [] c = "3" -> 3
    [] c = "4" -> 4 [] c = "5" -> 5 [] c = "6" -> 6 [] c = "7" -> 7
    [] c = "8" -> 8 [] c = "9" -> 9

RECURSIVE ToIndex(_)
ToIndex(s) ==
  IF s = <<>> THEN 0
  ELSE 10 * ToIndex(SubSeq(s, 1, Len(s) - 1)) + DigitVal(s[Len(s)])

(* ------------------------- property access ------------------------------ *)
\* obj[key] for obj neither null nor undefined
\* the length of the array at address a: one more than its greatest index
ArrayLength(h, a) ==
  LET idx == {ToIndex(k) : k \in {x \in DOMAIN h[a].props : IsArrayIndex(x)}}
  IN IF idx = {} THEN 0 ELSE 1 + CHOOSE n \in idx : \A m \in idx : m <= n

LengthKey == <<"l", "e", "n", "g", "t", "h">>

Get(h, obj, key) ==
  CASE obj.t = "ref" ->
         IF key \in DOMAIN h[obj.v].props THEN h[obj.v].props[key]
         ELSE IF h[obj.v].kind = "array" /\ key = LengthKey
         THEN Num(ArrayLength(h, obj.v))
         ELSE Undefined
    [] obj.t = "string" ->
         IF IsArrayIndex(key) /\ ToIndex(key) < Len(obj.v)
         THEN Str(<<obj.v[ToIndex(key) + 1]>>)
         ELSE IF key = LengthKey THEN Num(Len(obj.v))
         ELSE Undefined
    [] OTHER -> Undefined

DigitChars == <<"0", "1", "2", "3", "4", "5", "6", "7", "8", "9">>

\* String(n) for an index below ten
IndexKey(n) == <<DigitChars[n + 1]>>

\* a write that appends to an array (arr.push(val)) instead of storing at key
Put_Push(h, obj, key, val) ==
  IF obj.t = "ref"
  THEN LET at == IF h[obj.v].kind = "array" THEN IndexKey(ArrayLength(h, obj.v)) ELSE key
       IN [h EXCEPT ![obj.v].props =
             [k \in DOMAIN @ \cup {at} |-> IF k = at THEN val ELSE @[k]]]
  ELSE h

\* obj[key] = val in sloppy mode: a write to a primitive is silently dropped
Put(h, obj, key, val) ==
  IF obj.t = "ref"
  THEN [h EXCEPT ![obj.v].props =
          [k \in DOMAIN @ \cup {key} |-> IF k = key THEN val ELSE @[k]]]
  ELSE h

EmptyProps == [k \in {} |-> Undefined]

\* the literal {} or []
NewContainer(kind) == [kind |-> kind, props |-> EmptyProps]

(* ------------------------------ resolver -------------------------------- *)
\* ResolverLoop without the break on an undefined child: the traversal goes
\* on and the next segment is read from undefined
RECURSIVE ResolverLoop_NoBreak(_, _, _, _, _, _)
ResolverLoop_NoBreak(h, obj, path, i, depth, upsert) ==
  IF i >= depth THEN [heap |-> h, obj |-> obj, err |-> Null]
  ELSE
    LET key == path[i + 1]
        next == IF i + 2 <= Len(path) THEN Str(path[i + 2]) ELSE Undefined
    IN IF NotNullish(obj)
       THEN LET create == TypeOf(Get(h, obj, key)) = "undefined" /\ upsert
                h1 == IF create /\ obj.t = "ref"
                      THEN Put(Append(h, NewContainer(IF IsNaN(next) THEN "object" ELSE "array")),
                               obj, key, Ref(Len(h) + 1))
                      ELSE h
            IN ResolverLoop_NoBreak(h1, Get(h1, obj, key), path, i + 1, depth, upsert)
       ELSE [heap |-> h, obj |-> obj, err |-> TypeError(GETTER_ERROR, Str(key), obj)]

\* the for loop of resolver: i counts from 0, path[i] is path[i + 1] here.
\* The result carries the heap (upsert writes into it), the value reached
\* and the error, null when there is none.
RECURSIVE ResolverLoop(_, _, _, _, _, _)
ResolverLoop(h, obj, path, i, depth, upsert) ==
  IF i >= depth THEN [heap |-> h, obj |-> obj, err |-> Null]
  ELSE
    LET key == path[i + 1]
        next == IF i + 2 <= Len(path) THEN Str(path[i + 2]) ELSE Undefined
    IN IF NotNullish(obj)
       THEN LET create == TypeOf(Get(h, obj, key)) = "undefined" /\ upsert
                h1 == IF create /\ obj.t = "ref"
                      THEN Put(Append(h, NewContainer(IF IsNaN(next) THEN "object" ELSE "array")),
                               obj, key, Ref(Len(h) + 1))
                      ELSE h
                child == Get(h1, obj, key)
            IN IF TypeOf(child) = "undefined"
               THEN [heap |-> h1, obj |-> child, err |-> Null]
               ELSE ResolverLoop(h1, child, path, i + 1, depth, upsert)
       ELSE [heap |-> h, obj |-> obj, err |-> TypeError(GETTER_ERROR, Str(key), obj)]

\* resolver(obj, path, depth, callback, upsert) up to the callback test
resolver(h, obj, path, depth, upsert) == ResolverLoop(h, obj, path, 0, depth, upsert)

\* this.ctx
Ctx == Ref(1)

\* query && query.split(this.delim) || []
PathOf(query) == IF Truthy(query) THEN Split(query.v, Delim) ELSE <<>>

(* ------------------------- deferred callbacks --------------------------- *)
\* what async(function () { callback(err && String(err), !err && obj) })
\* keeps until the next tick: err and obj of resolver, and for update the
\* lastKey and value its inner callback closes over
Deferred(op, r, lastKey, value) ==
  [op |-> op, err |-> r.err, obj |-> r.obj, lastKey |-> lastKey, value |-> value]

\* ResolverReturn handing the function to async twice
ResolverReturn_Twice(r, cb, op, lastKey, value) ==
  IF cb
  THEN [result |-> Undefined,
        deferred |-> <<Deferred(op, r, lastKey, value), Deferred(op, r, lastKey, value)>>]
  ELSE [result |-> IF r.err # Null THEN r.err ELSE r.obj, deferred |-> <<>>]

\* if(callback) { async(...) } else { return err || obj }: the value resolver
\* returns and the functions it hands to async
ResolverReturn(r, cb, op, lastKey, value) ==
  IF cb
  THEN [result |-> Undefined, deferred |-> <<Deferred(op, r, lastKey, value)>>]
  ELSE [result |-> IF r.err # Null THEN r.err ELSE r.obj, deferred |-> <<>>]

\* err && String(err)
CbErr(d) == IF d.err # Null THEN ErrString(d.err) ELSE Null

\* !err && obj
CbObj(d) == IF d.err # Null THEN False ELSE d.obj

(* -------------------------------- find ---------------------------------- *)
\* find resolving to the parent of the target, as update does
find_ParentDepth(h, query, cb) ==
  LET path == PathOf(query)
      r == resolver(h, Ctx, path, Len(path) - 1, FALSE)
      rr == ResolverReturn(r, cb, "find", Undefined, Undefined)
  IN IF IsError(rr.result)
     THEN [heap |-> r.heap, ret |-> Undefined, thrown |-> rr.result, deferred |-> rr.deferred]
     ELSE [heap |-> r.heap, ret |-> IF cb THEN This ELSE rr.result, thrown |-> Null,
           deferred |-> rr.deferred]

\* find resolving with upsert on, as update does by default
find_Upsert(h, query, cb) ==
  LET path == PathOf(query)
      r == resolver(h, Ctx, path, Len(path), TRUE)
      rr == ResolverReturn(r, cb, "find", Undefined, Undefined)
  IN IF IsError(rr.result)
     THEN [heap |-> r.heap, ret |-> Undefined, thrown |-> rr.result, deferred |-> rr.deferred]
     ELSE [heap |-> r.heap, ret |-> IF cb THEN This ELSE rr.result, thrown |-> Null,
           deferred |-> rr.deferred]

\* find(query, callback): the heap afterwards, the value returned, the error
\* thrown (null when none) and what was handed to async
find(h, query, cb) ==
  LET path == PathOf(query)
      r == resolver(h, Ctx, path, Len(path), FALSE)
      rr == ResolverReturn(r, cb, "find", Undefined, Undefined)
  IN IF IsError(rr.result)
     THEN [heap |-> r.heap, ret |-> Undefined, thrown |-> rr.result, deferred |-> rr.deferred]
     ELSE [heap |-> r.heap, ret |-> IF cb THEN This ELSE rr.result, thrown |-> Null,
           deferred |-> rr.deferred]

(* ------------------------------- update --------------------------------- *)
\* upsert = "boolean" === typeof upsert ? upsert : true
UpsertOf(arg) == IF arg = "default" THEN TRUE ELSE arg = "true"

\* path[depth] with depth = path.length - 1
LastKeyOf(path) == IF Len(path) > 0 THEN Str(path[Len(path)]) ELSE Undefined

\* set without the test of key: an undefined key names the property "undefined"
set_NoKeyTest(h, obj, key, val) ==
  IF NotNullish(obj)
  THEN [heap |-> Put(h, obj, IF key.t = "string" THEN key.v
                             ELSE <<"u", "n", "d", "e", "f", "i", "n", "e", "d">>, val),
        result |-> val]
  ELSE [heap |-> h, result |-> TypeError(SETTER_ERROR, key, obj)]

\* the local function set(obj, key, val) of update
set(h, obj, key, val) ==
  IF NotNullish(obj) /\ Truthy(key)
  THEN [heap |-> Put(h, obj, key.v, val), result |-> val]
  ELSE [heap |-> h, result |-> TypeError(SETTER_ERROR, key, obj)]

\* update assigning on the root instead of on the parent it resolved
update_AtRoot(h, query, value, cb, upsertArg) ==
  LET path == PathOf(query)
      depth == Len(path) - 1
      lastKey == LastKeyOf(path)
      r == resolver(h, Ctx, path, depth, UpsertOf(upsertArg))
      rr == ResolverReturn(r, cb, "update", lastKey, value)
  IN IF cb
     THEN [heap |-> r.heap, ret |-> This, thrown |-> Null, deferred |-> rr.deferred]
     ELSE IF IsError(rr.result)
     THEN [heap |-> r.heap, ret |-> Undefined, thrown |-> rr.result, deferred |-> <<>>]
     ELSE LET s == set(r.heap, Ctx, lastKey, value)
          IN IF IsError(s.result)
             THEN [heap |-> s.heap, ret |-> Undefined, thrown |-> s.result, deferred |-> <<>>]
             ELSE [heap |-> s.heap, ret |-> This, thrown |-> Null, deferred |-> <<>>]

\* update(query, value, callback, upsert) up to its return: without a
\* callback the assignment is made here, with one it is left to the
\* function handed to async
update(h, query, value, cb, upsertArg) ==
  LET path == PathOf(query)
      depth == Len(path) - 1
      lastKey == LastKeyOf(path)
      r == resolver(h, Ctx, path, depth, UpsertOf(upsertArg))
      rr == ResolverReturn(r, cb, "update", lastKey, value)
  IN IF cb
     THEN [heap |-> r.heap, ret |-> This, thrown |-> Null, deferred |-> rr.deferred]
     ELSE IF IsError(rr.result)
     THEN [heap |-> r.heap, ret |-> Undefined, thrown |-> rr.result, deferred |-> <<>>]
     ELSE LET s == set(r.heap, rr.result, lastKey, value)
          IN IF IsError(s.result)
             THEN [heap |-> s.heap, ret |-> Undefined, thrown |-> s.result, deferred |-> <<>>]
             ELSE [heap |-> s.heap, ret |-> This, thrown |-> Null, deferred |-> <<>>]

\* the inner callback of update dropping the error of set
UpdateCallback_DropSetError(h, d) ==
  IF Truthy(CbErr(d))
  THEN [heap |-> h, err |-> CbErr(d), res |-> False]
  ELSE LET s == set(h, CbObj(d), d.lastKey, d.value)
       IN [heap |-> s.heap, err |-> CbErr(d), res |-> Ctx]

\* the inner callback of update: function (err, obj) { err || (result =
\* set(obj, lastKey, value)) instanceof Error && (err = String(result));
\* callback(err, !err && ctx) }
UpdateCallback(h, d) ==
  IF Truthy(CbErr(d))
  THEN [heap |-> h, err |-> CbErr(d), res |-> False]
  ELSE LET s == set(h, CbObj(d), d.lastKey, d.value)
       IN IF IsError(s.result)
          THEN [heap |-> s.heap, err |-> ErrString(s.result), res |-> False]
          ELSE [heap |-> s.heap, err |-> CbErr(d), res |-> Ctx]

\* the function resolver hands to async, run at the next tick: what the
\* user's callback receives and the heap afterwards
RunDeferred(h, d) ==
  IF d.op = "update" THEN UpdateCallback(h, d)
  ELSE [heap |-> h, err |-> CbErr(d), res |-> CbObj(d)]

(* -------------------------------- copy ---------------------------------- *)
\* JSON.parse(JSON.stringify(v)): a fresh object or array per container; an
\* object keeps its properties whose value is not undefined, an array keeps
\* its elements 0 .. length - 1 (a hole becomes null) and loses every other
\* property; numbers, strings and null are kept as they are.
RECURSIVE JsonClone(_, _), JsonCloneProps(_, _, _, _)
JsonClone(h, v) ==
  IF v.t # "ref" THEN [heap |-> h, val |-> v]
  ELSE LET o == h[v.v]
           keys == IF o.kind = "array"
                   THEN {IndexKey(n) : n \in 0..(ArrayLength(h, v.v) - 1)}
                   ELSE {k \in DOMAIN o.props : o.props[k].t # "undefined"}
           h1 == Append(h, NewContainer(o.kind))
       IN [heap |-> JsonCloneProps(h1, v.v, Len(h1), keys), val |-> Ref(Len(h1))]

JsonCloneProps(h, src, dst, keys) ==
  IF keys = {} THEN h
  ELSE LET k == CHOOSE x \in keys : TRUE
           child == Get(h, Ref(src), k)
           c == JsonClone(h, IF child.t = "undefined" THEN Null ELSE child)
       IN JsonCloneProps(Put(c.heap, Ref(dst), k, c.val), src, dst, keys \ {k})

\* copy(query): result = this.find(query);
\* return "object" === typeof result && JSON.parse(JSON.stringify(result))
copy(h, query) ==
  LET f == find(h, query, FALSE)
  IN IF f.thrown # Null
     THEN [heap |-> f.heap, ret |-> Undefined, thrown |-> f.thrown, deferred |-> <<>>]
     ELSE IF TypeOf(f.ret) = "object"
     THEN LET c == JsonClone(f.heap, f.ret)
          IN [heap |-> c.heap, ret |-> c.val, thrown |-> Null, deferred |-> <<>>]
     ELSE [heap |-> f.heap, ret |-> False, thrown |-> Null, deferred |-> <<>>]

(* ------------------------------- inputs --------------------------------- *)
Segs == {<<"a">>, <<"0">>, <<>>}

RECURSIVE Join(_, _)
Join(p, d) ==
  IF Len(p) = 0 THEN <<>>
  ELSE IF Len(p) = 1 THEN p[1]
  ELSE p[1] \o <<d>> \o Join(Tail(p), d)

Paths == UNION {[1..n -> Segs] : n \in 0..MaxSegs}

Queries == {Undefined} \cup {Str(Join(p, Delim)) : p \in Paths}

Values == {Num(7)}

UpsertArgs == {"default", "false"}

\* new Error("E"): a value that is an instance of Error
UserError == [t |-> "error", v |-> [msg |-> "E", key |-> Undefined, of |-> "undefined"]]

\* the values of a write that may itself be an error object
ErrorValues == {Num(7), UserError}

\* the values and the number of calls of a sequence of writes
WriteValues == {Num(7), Num(8)}
MaxWrites == 2

Obj(props) == [kind |-> "object", props |-> props]
Arr(props) == [kind |-> "array", props |-> props]

\* the roots handed to the constructor: {}, {a: 5}, {a: {a: [10]}},
\* {a: null, 0: "s"}
InitialHeaps ==
  { <<Obj(EmptyProps)>>,
    <<Obj(<<"a">> :> Num(5))>>,
    <<Obj(<<"a">> :> Ref(2)), Obj(<<"a">> :> Ref(3)), Arr(<<"0">> :> Num(10))>>,
    <<Obj((<<"a">> :> Null) @@ (<<"0">> :> Str(<<"s">>)))>> }

(* ------------------------------- actions -------------------------------- *)
\* log records every call of find and update: its arguments, the heap before
\* and after, what it returned and what it threw.  pending is the next-tick
\* queue; each entry carries the number of the call that queued it.
\* delivered records every invocation of a user callback.
Init ==
  /\ heap \in InitialHeaps
  /\ pending = <<>>
  /\ log = <<>>
  /\ delivered = <<>>

CallUpTo(limit, op, cb, q, v, u, out) ==
  /\ Len(log) < limit
  /\ heap' = out.heap
  /\ pending' = pending \o [i \in 1..Len(out.deferred) |->
                              [id |-> Len(log) + 1, fn |-> out.deferred[i]]]
  /\ log' = Append(log, [op |-> op, cb |-> cb, query |-> q, value |-> v, upsert |-> u,
                         pre |-> heap, post |-> out.heap, ret |-> out.ret,
                         thrown |-> out.thrown])
  /\ UNCHANGED delivered

Call(op, cb, q, v, u, out) == CallUpTo(MaxCalls, op, cb, q, v, u, out)

\* r.find(q)
Find(q) == Call("find", FALSE, q, Undefined, "default", find(heap, q, FALSE))

\* r.find(q, callback)
FindCb(q) == Call("find", TRUE, q, Undefined, "default", find(heap, q, TRUE))

\* r.update(q, v) and r.update(q, v, false)
Update(q, v, u) == Call("update", FALSE, q, v, u, update(heap, q, v, FALSE, u))

\* r.update(q, v, callback) and r.update(q, v, callback, false)
UpdateCb(q, v, u) == Call("update", TRUE, q, v, u, update(heap, q, v, TRUE, u))

\* the next tick: the oldest deferred function runs and calls the callback
RunCallback ==
  /\ pending # <<>>
  /\ LET d == Head(pending)
         c == RunDeferred(heap, d.fn)
     IN /\ heap' = c.heap
        /\ delivered' = Append(delivered, [id |-> d.id, err |-> c.err, res |-> c.res,
                                           pre |-> heap, post |-> c.heap])
  /\ pending' = Tail(pending)
  /\ UNCHANGED log

Next ==
  \/ \E q \in Queries : Find(q)
  \/ \E q \in Queries : FindCb(q)
  \/ \E q \in Queries, v \in Values, u \in UpsertArgs : Update(q, v, u)
  \/ \E q \in Queries, v \in Values, u \in UpsertArgs : UpdateCb(q, v, u)
  \/ RunCallback

Spec == Init /\ [][Next]_vars

\* r.copy(q)
Copy(q) == Call("copy", FALSE, q, Undefined, "default", copy(heap, q))

CopyNext ==
  \/ Next
  \/ \E q \in Queries : Copy(q)

\* the accessor with copy among its operations
CopySpec == Init /\ [][CopyNext]_vars

\* several writes of different values on one accessor, with and without a
\* callback, and the next ticks between them
Write(q, v, u) ==
  CallUpTo(MaxWrites, "update", FALSE, q, v, u, update(heap, q, v, FALSE, u))

WriteCb(q, v, u) ==
  CallUpTo(MaxWrites, "update", TRUE, q, v, u, update(heap, q, v, TRUE, u))

OrderNext ==
  \/ \E q \in Queries, v \in WriteValues, u \in UpsertArgs : Write(q, v, u)
  \/ \E q \in Queries, v \in WriteValues, u \in UpsertArgs : WriteCb(q, v, u)
  \/ RunCallback

OrderSpec == Init /\ [][OrderNext]_vars

\* the first write on a fresh accessor, its value possibly an error object
FirstUpdate(q, v, u) ==
  /\ log = <<>>
  /\ Call("update", FALSE, q, v, u, update(heap, q, v, FALSE, u))

FirstUpdateCb(q, v, u) ==
  /\ log = <<>>
  /\ Call("update", TRUE, q, v, u, update(heap, q, v, TRUE, u))

FirstUpdateNext ==
  \/ \E q \in Queries, v \in ErrorValues, u \in UpsertArgs : FirstUpdate(q, v, u)
  \/ \E q \in Queries, v \in ErrorValues, u \in UpsertArgs : FirstUpdateCb(q, v, u)
  \/ RunCallback

FirstUpdateSpec == Init /\ [][FirstUpdateNext]_vars

\* process.nextTick always runs what was handed to it
FairSpec == Spec /\ WF_vars(RunCallback)

(* ------------------------ vocabulary of the claims ---------------------- *)
Last == log[Len(log)]

LastIs(op, cb) == log # <<>> /\ Last.op = op /\ Last.cb = cb

\* the segments a call's query stands for
SegsOf(c) == PathOf(c.query)

\* the value met after walking the first k segments of p from the root, one
\* property access per segment; "absent" once a segment had nothing to index
RECURSIVE WalkFrom(_, _, _, _)
WalkFrom(h, v, p, k) ==
  IF k = 0 THEN v
  ELSE LET parent == WalkFrom(h, v, p, k - 1)
       IN IF parent.t \in {"absent", "undefined", "null"}
          THEN [t |-> "absent", v |-> 0]
          ELSE Get(h, parent, p[k])

At(h, p, k) == WalkFrom(h, Ctx, p, k)

IsComposite(x) == x.t = "ref"

IsScalar(x) == x.t \in {"number", "string", "null"}

\* every segment of p names something that is there
FullyExists(h, p) == \A k \in 1..Len(p) : At(h, p, k).t \notin {"absent", "undefined"}

\* a segment that is a non-negative integer literal
IsNonNegInt(s) == Len(s) > 0 /\ AllDigits(s)

\* the failure a call reported: thrown by it, or handed to its callback
IsReadError(e) == e.t \in {"error", "errstring"} /\ e.v.msg = GETTER_ERROR

IsSetError(e) == e.t \in {"error", "errstring"} /\ e.v.msg = SETTER_ERROR

\* the same call made without a callback on the heap the call started from
Sync(c) ==
  IF c.op = "find" THEN find(c.pre, c.query, FALSE)
  ELSE update(c.pre, c.query, c.value, FALSE, c.upsert)

DeliveredCount(i) == Cardinality({j \in 1..Len(delivered) : delivered[j].id = i})

IsPending(i) == \E j \in 1..Len(pending) : pending[j].id = i

(* -------------------------------- claims -------------------------------- *)

\* C1: after update(P, V) with a non-empty path, default upsert and no
\* callback has returned, find(P) returns V.
C1_UpdateThenFind ==
  (/\ LastIs("update", FALSE)
   /\ Last.upsert = "default"
   /\ SegsOf(Last) # <<>>
   /\ Last.thrown = Null)
  => LET f == find(Last.post, Last.query, FALSE)
     IN f.thrown = Null /\ f.ret = Last.value

\* C2: whenever the traversal of find or update meets a number, a string or
\* null while segments remain to be traversed, the call fails with the
\* "Cannot read property" TypeError.
C2_NotIndexable ==
  \A i \in 1..Len(log) :
    LET c == log[i]
        p == SegsOf(c)
        depth == IF c.op = "find" THEN Len(p) ELSE Len(p) - 1
    IN (~c.cb /\ \E k \in 0..(depth - 1) : IsScalar(At(c.pre, p, k)))
       => IsReadError(c.thrown)

\* C3: a container that update with upsert creates at a missing intermediate
\* key is an array exactly when the next segment is a non-negative integer
\* literal, and an object otherwise.
C3_ContainerKind ==
  \A i \in 1..Len(log) :
    LET c == log[i]
        p == SegsOf(c)
    IN (c.op = "update" /\ UpsertOf(c.upsert))
       => \A k \in 1..(Len(p) - 1) :
            LET before == At(c.pre, p, k)
                after == At(c.post, p, k)
            IN (/\ before.t \in {"absent", "undefined"}
                /\ after.t = "ref"
                /\ after.v > Len(c.pre))
               => (c.post[after.v].kind = "array" <=> IsNonNegInt(p[k + 1]))

\* C4: find(P) without a callback, for a path all of whose segments exist,
\* returns the value reached by walking the root one segment at a time, and
\* the root itself for the empty or unspecified path.
C4_FindWalks ==
  LastIs("find", FALSE)
  => LET p == SegsOf(Last)
     IN /\ FullyExists(Last.pre, p)
           => Last.thrown = Null /\ Last.ret = At(Last.pre, p, Len(p))
        /\ ~Truthy(Last.query) => Last.thrown = Null /\ Last.ret = Ctx

C4_Witness ==
  /\ LastIs("find", FALSE)
  /\ Len(SegsOf(Last)) >= 2
  /\ FullyExists(Last.pre, SegsOf(Last))
  /\ IsComposite(Last.ret)

\* C5: find(P) whose path names a key that is absent on a composite reached
\* by the traversal returns undefined and neither throws nor reports an
\* error, however many segments follow the absent one.
C5_AbsentIsUndefined ==
  /\ \A i \in 1..Len(log) :
       LET c == log[i]
           p == SegsOf(c)
       IN (/\ c.op = "find"
           /\ \E k \in 1..Len(p) :
                /\ IsComposite(At(c.pre, p, k - 1))
                /\ p[k] \notin DOMAIN c.pre[At(c.pre, p, k - 1).v].props)
          => /\ c.thrown = Null
             /\ ~c.cb => c.ret = Undefined
             /\ \A j \in 1..Len(delivered) :
                  delivered[j].id = i
                  => delivered[j].err = Null /\ delivered[j].res = Undefined

C5_Witness ==
  /\ LastIs("find", FALSE)
  /\ Len(SegsOf(Last)) >= 2
  /\ SegsOf(Last)[1] \notin DOMAIN Last.pre[1].props
  /\ Last.ret = Undefined
  /\ Last.thrown = Null

\* C6: a call with a callback never throws and hands its callback exactly
\* the failure the same call without a callback throws (null when that call
\* throws nothing); nothing is handed to a callback by a call made without one.
C6_ErrorPropagation ==
  /\ \A i \in 1..Len(log) : log[i].cb => log[i].thrown = Null
  /\ \A j \in 1..Len(delivered) :
       LET d == delivered[j]
           s == Sync(log[d.id])
       IN /\ log[d.id].cb
          /\ IF IsError(s.thrown)
             THEN d.err = ErrString(s.thrown) /\ d.res = False
             ELSE d.err = Null
  /\ \A j \in 1..Len(pending) : log[pending[j].id].cb

C6_Witness ==
  \E j \in 1..Len(delivered) :
    /\ log[delivered[j].id].op = "update"
    /\ IsSetError(delivered[j].err)

\* C7: when update(P, V, callback) returns, V is already assigned: find(P)
\* on the root as the call left it returns V (for every call whose form
\* without a callback succeeds and reads back V).
C7_AssignedBeforeReturn ==
  (/\ LastIs("update", TRUE)
   /\ Sync(Last).thrown = Null
   /\ find(Sync(Last).heap, Last.query, FALSE).ret = Last.value)
  => find(Last.post, Last.query, FALSE).ret = Last.value

\* C8: a call of find or update with a callback returns the accessor, its
\* callback is not invoked before the call has returned (it is queued or has
\* been invoked once, never both), and in the end every such callback has been
\* invoked exactly once.
C8_CallbackOnce ==
  /\ [](\A i \in 1..Len(log) :
          log[i].cb
          => /\ log[i].ret = This
             /\ \/ IsPending(i) /\ DeliveredCount(i) = 0
                \/ ~IsPending(i) /\ DeliveredCount(i) = 1)
  /\ <>[](\A i \in 1..Len(log) : log[i].cb => DeliveredCount(i) = 1)

C8_Witness ==
  /\ delivered # <<>>
  /\ log[delivered[1].id].cb
  /\ DeliveredCount(delivered[1].id) = 1
  /\ pending = <<>>

\* C9: update with an empty or unspecified path fails with the "Cannot set
\* property" TypeError (thrown, or handed to the callback) and leaves the
\* root as it was.
C9_EmptyPathNotAssignable ==
  /\ \A i \in 1..Len(log) :
       LET c == log[i]
       IN (c.op = "update" /\ SegsOf(c) = <<>>)
          => /\ c.post = c.pre
             /\ ~c.cb => IsError(c.thrown) /\ IsSetError(c.thrown)
  /\ \A j \in 1..Len(delivered) :
       LET d == delivered[j]
           c == log[d.id]
       IN (c.op = "update" /\ SegsOf(c) = <<>>)
          => IsSetError(d.err) /\ d.res = False /\ d.post = d.pre

C9_Witness ==
  /\ LastIs("update", FALSE)
  /\ SegsOf(Last) = <<>>
  /\ IsSetError(Last.thrown)
  /\ Last.post = Last.pre

\* C10: update(P, V) with upsert disabled fails and leaves the root unchanged
\* when an intermediate container of P is missing, and assigns V at the
\* final key when every intermediate container is there.
C10_NoUpsert ==
  \A i \in 1..Len(log) :
    LET c == log[i]
        p == SegsOf(c)
        missing == \E k \in 1..(Len(p) - 1) : ~IsComposite(At(c.pre, p, k))
    IN (c.op = "update" /\ ~c.cb /\ c.upsert = "false" /\ p # <<>> /\ p[Len(p)] # <<>>)
       => /\ missing => IsError(c.thrown) /\ c.post = c.pre
          /\ ~missing => c.thrown = Null /\ find(c.post, c.query, FALSE).ret = c.value

\* C11: find never changes the root: neither the call, with or without a
\* callback, nor the delivery of its callback writes anything, whether the
\* read succeeds, finds nothing or fails.
C11_FindFrame ==
  /\ \A i \in 1..Len(log) : log[i].op = "find" => log[i].post = log[i].pre
  /\ \A j \in 1..Len(delivered) :
       log[delivered[j].id].op = "find" => delivered[j].post = delivered[j].pre

C11_Witness ==
  /\ LastIs("find", TRUE)
  /\ Len(SegsOf(Last)) >= 2
  /\ SegsOf(Last)[1] \notin DOMAIN Last.pre[1].props
  /\ delivered # <<>>
  /\ heap = Last.pre

\* C12: update(P, V) made twice in a row leaves the root the first call
\* left, and the second call ends as the first did (returns, or throws the
\* same error).
C12_Idempotent ==
  /\ \A i \in 1..Len(log) :
       LET c == log[i]
           again == update(c.post, c.query, c.value, FALSE, c.upsert)
       IN (c.op = "update" /\ ~c.cb)
          => again.heap = c.post /\ again.thrown = c.thrown
  /\ \A i \in 1..(Len(log) - 1) :
       LET c == log[i]
           d == log[i + 1]
       IN (/\ c.op = "update" /\ d.op = "update" /\ ~c.cb /\ ~d.cb
           /\ d.query = c.query /\ d.value = c.value /\ d.upsert = c.upsert
           /\ d.pre = c.post)
          => d.post = c.post /\ d.thrown = c.thrown

C12_Witness ==
  /\ LastIs("update", FALSE)
  /\ Last.thrown = Null
  /\ Len(Last.post) > Len(Last.pre)
  /\ update(Last.post, Last.query, Last.value, FALSE, Last.upsert).heap = Last.post
  /\ find(Last.post, Last.query, FALSE).ret = Last.value

\* the value v stands for, containers written out: what deepEqual compares
RECURSIVE Tree(_, _)
Tree(h, v) ==
  IF v.t = "ref"
  THEN [t |-> "tree",
        v |-> [kind |-> h[v.v].kind,
               props |-> [k \in DOMAIN h[v.v].props |-> Tree(h, h[v.v].props[k])]]]
  ELSE v

\* the containers reachable from v
RECURSIVE Reach(_, _)
Reach(h, v) ==
  IF v.t = "ref"
  THEN {v.v} \cup UNION {Reach(h, h[v.v].props[k]) : k \in DOMAIN h[v.v].props}
  ELSE {}

\* C13: copy(P) returns, when P resolves to a composite, a value structurally
\* equal to it that shares no container with the root, and false when P
\* resolves to anything else.
C13_Copy ==
  \A i \in 1..Len(log) :
    LET c == log[i]
        r == find(c.pre, c.query, FALSE).ret
    IN (c.op = "copy" /\ c.thrown = Null)
       => IF IsComposite(r)
          THEN /\ IsComposite(c.ret)
               /\ Tree(c.post, c.ret) = Tree(c.pre, r)
               /\ Reach(c.post, c.ret) \cap Reach(c.post, Ctx) = {}
          ELSE c.ret = False

\* the writes of the first n calls applied one after another, each one
\* complete before the next starts
RECURSIVE InOrder(_)
InOrder(n) ==
  IF n = 0 THEN log[1].pre
  ELSE update(InOrder(n - 1), log[n].query, log[n].value, FALSE, log[n].upsert).heap

\* C14: once every callback of a sequence of update calls has been delivered,
\* the root equals the result of applying the same writes one after another
\* in the order they were invoked.
C14_InvocationOrder ==
  (/\ log # <<>>
   /\ pending = <<>>
   /\ \A i \in 1..Len(log) : log[i].op = "update")
  => Tree(heap, Ctx) = Tree(InOrder(Len(log)), Ctx)

\* the keys of path p before its last one
IntermediateKeys(p) == {p[i] : i \in 1..(Len(p) - 1)}

IsNewContainer(pre, x) == x.t = "ref" /\ x.v > Len(pre)

\* post differs from pre at most by containers created at absent intermediate
\* keys of p: every container of pre keeps its kind and every property it
\* had, and every property that is new holds a new container
OnlyUpserted(pre, post, p) ==
  /\ Len(post) >= Len(pre)
  /\ \A a \in 1..Len(pre) :
       /\ post[a].kind = pre[a].kind
       /\ DOMAIN pre[a].props \subseteq DOMAIN post[a].props
       /\ \A k \in DOMAIN pre[a].props : post[a].props[k] = pre[a].props[k]
       /\ \A k \in DOMAIN post[a].props \ DOMAIN pre[a].props :
            k \in IntermediateKeys(p) /\ IsNewContainer(pre, post[a].props[k])
  /\ \A a \in (Len(pre) + 1)..Len(post) :
       \A k \in DOMAIN post[a].props :
         k \in IntermediateKeys(p) /\ IsNewContainer(pre, post[a].props[k])

\* C15: an update that throws, or that reports an error to its callback, has
\* not assigned the final key and has changed or removed no value the root
\* had; the root differs at most by containers upsert created at absent
\* intermediate keys of the path.
C15_FailedUpdateFrame ==
  /\ \A i \in 1..Len(log) :
       (log[i].op = "update" /\ log[i].thrown # Null)
       => OnlyUpserted(log[i].pre, log[i].post, SegsOf(log[i]))
  /\ \A j \in 1..Len(delivered) :
       LET c == log[delivered[j].id]
       IN (c.op = "update" /\ Truthy(delivered[j].err))
          => /\ OnlyUpserted(c.pre, c.post, SegsOf(c))
             /\ delivered[j].post = delivered[j].pre

\* the queries find is observed with: those of the calls and those that read
\* the built-in length of an array or a string
ObservedPaths == UNION {[1..n -> Segs \cup {LengthKey}] : n \in 0..MaxSegs}

ObservedQueries == {Undefined} \cup {Str(Join(p, Delim)) : p \in ObservedPaths}

\* the paths the observed queries split into
ObservedWalks == {PathOf(q) : q \in ObservedQueries}

IsPrefix(a, b) == Len(a) <= Len(b) /\ SubSeq(b, 1, Len(a)) = a

\* q names a location that is neither on the way to p nor below p
OffPath(q, p) == ~IsPrefix(q, p) /\ ~IsPrefix(p, q)

\* q leaves p at the key length
ReadsLengthOn(q, p) ==
  \E n \in 0..(Len(p) - 1) :
    /\ Len(q) > n
    /\ SubSeq(q, 1, n) = SubSeq(p, 1, n)
    /\ q[n + 1] = LengthKey

\* what find does with a query that splits into path p: the value it returns
\* and the error it throws
FindAt(h, p) ==
  LET r == resolver(h, Ctx, p, Len(p), FALSE)
  IN <<IF r.err # Null THEN Undefined ELSE r.obj, r.err>>

\* the step from pre to post leaves find(q) as it was for every observed path
\* q off p; without withLength, for those of them that read no length on p
SameOffPath(pre, post, p, withLength) ==
  \A q \in ObservedWalks :
    (OffPath(q, p) /\ (withLength \/ ~ReadsLengthOn(q, p)))
    => FindAt(post, q) = FindAt(pre, q)

\* every update that succeeded is framed: the call of one without callback,
\* and both the call and the delivery of one with a callback
UpdateFramed(withLength) ==
  /\ \A i \in 1..Len(log) :
       (log[i].op = "update" /\ ~log[i].cb /\ log[i].thrown = Null)
       => SameOffPath(log[i].pre, log[i].post, SegsOf(log[i]), withLength)
  /\ \A j \in 1..Len(delivered) :
       LET d == delivered[j]
           c == log[d.id]
       IN (c.op = "update" /\ ~Truthy(d.err))
          => /\ SameOffPath(c.pre, c.post, SegsOf(c), withLength)
             /\ SameOffPath(d.pre, d.post, SegsOf(c), withLength)

====
